---- MODULE Spec2Model ----
(***************************************************************************)
(* Model of src/index.ts: the Flatfile listener of the repository.         *)
(*                                                                         *)
(*  - the recordHook callback on "customers" (the Record Validator), which *)
(*    tests the `author` field against a regular expression and rewrites   *)
(*    it from the first two pieces of author.split(" ");                   *)
(*  - the "job:completed" handler (Purchase-Order Transformer and Egress   *)
(*    Notifier), an async function that suspends at every await.           *)
(*                                                                         *)
(* Text is a sequence of one-character strings.  A JavaScript number is a  *)
(* record [nan, twice]: NaN, or the number twice/2, so that 2.5 and 3 are  *)
(* both values a `stock` cell can hold.                                    *)
(***************************************************************************)
EXTENDS Integers, Sequences, FiniteSets, TLC

VARIABLES
    input,      \* the author text of the record as the hook receives it
    record,     \* the FlatfileRecord the hook works on: values and comments
    hookPc,     \* "pending" before the recordHook callback ran, "done" after
    returned,   \* TRUE when the callback returned the record, FALSE for undefined
    sheets,     \* platform: sheet id -> the records of the sheet, in order
    secretStore,\* platform: workbook (event context) -> secret name -> value
    handlers,   \* the job:completed handler runs, in order of event delivery
    outbox      \* mail transport: the messages accepted by sendMail, in order

hookVars == <<input, record, hookPc, returned>>
jobVars == <<sheets, secretStore, handlers, outbox>>
vars == <<input, record, hookPc, returned, sheets, secretStore, handlers, outbox>>

----------------------------------------------------------------------------
(* Bounds *)

\* longest author text the hook is given
MaxLen == 5

\* most records in an inventory sheet
MaxRecords == 2

\* most job:completed events delivered when one workbook exists
MaxRuns == 1

\* most job:completed events delivered when two workbooks exist
MaxEvents == 2

----------------------------------------------------------------------------
(* Text *)

\* characters matched by \p{L}; the letters of "undefined" are among them
Letters == {"a", "b", "u", "n", "d", "e", "f", "i"}

\* characters matched by [\p{L}'-]
NameChars == Letters \cup {"'", "-"}

\* characters matched by \s
Whitespace == {" ", "\t"}

\* characters an author cell is built from: two letters, a hyphen, a dot
\* (no letter, no apostrophe, no hyphen), the space and the comma
Alphabet == {"a", "b", "-", ".", " ", ","}

Texts == UNION {[1..n -> Alphabet] : n \in 0..MaxLen}

\* the text `${undefined}` interpolates
UndefinedText == <<"u", "n", "d", "e", "f", "i", "n", "e", "d">>

\* first position >= i of s whose character is not in class (Len(s)+1 if none):
\* where a greedy class* of the pattern stops
RECURSIVE SkipClass(_, _, _)
SkipClass(s, i, class) ==
    IF i <= Len(s) /\ s[i] \in class THEN SkipClass(s, i + 1, class) ELSE i

\* the pattern without its leading \s*
validateNameFormat_unpadded(name) ==
    LET i1 == 1
        i2 == SkipClass(name, i1, NameChars)
        i3 == SkipClass(name, i2, Whitespace)
        i4 == SkipClass(name, i3 + 1, Whitespace)
        i5 == SkipClass(name, i4, NameChars)
        i6 == SkipClass(name, i5, Whitespace)
    IN  /\ i2 > i1
        /\ i3 <= Len(name)
        /\ name[i3] = ","
        /\ i5 > i4
        /\ i6 = Len(name) + 1

\* /^\s*[\p{L}'-]+\s*,\s*[\p{L}'-]+\s*$/u .test(name).  The classes \s,
\* [\p{L}'-] and "," are disjoint, so the greedy scan decides the match.
validateNameFormat(name) ==
    LET i1 == SkipClass(name, 1, Whitespace)
        i2 == SkipClass(name, i1, NameChars)
        i3 == SkipClass(name, i2, Whitespace)
        i4 == SkipClass(name, i3 + 1, Whitespace)
        i5 == SkipClass(name, i4, NameChars)
        i6 == SkipClass(name, i5, Whitespace)
    IN  /\ i2 > i1
        /\ i3 <= Len(name)
        /\ name[i3] = ","
        /\ i5 > i4
        /\ i6 = Len(name) + 1

\* String.prototype.split(" "): the pieces between single spaces, empty
\* pieces included; the empty text splits to one empty piece
RECURSIVE SplitFrom(_, _, _)
SplitFrom(s, i, piece) ==
    IF i > Len(s) THEN <<piece>>
    ELSE IF s[i] = " " THEN <<piece>> \o SplitFrom(s, i + 1, <<>>)
    ELSE SplitFrom(s, i + 1, Append(piece, s[i]))

Split(s) == SplitFrom(s, 1, <<>>)

\* `${arr[k]}` for the zero-based index k: the element, or "undefined"
Interpolate(arr, k) == IF k + 1 <= Len(arr) THEN arr[k + 1] ELSE UndefinedText

\* the two pieces in the order they came: `${nameSplit[0]}, ${nameSplit[1]}`
RewrittenAuthor_unswapped(nameSplit) ==
    Interpolate(nameSplit, 0) \o <<",", " ">> \o Interpolate(nameSplit, 1)

\* `${nameSplit[1]}, ${nameSplit[0]}`
RewrittenAuthor(nameSplit) ==
    Interpolate(nameSplit, 1) \o <<",", " ">> \o Interpolate(nameSplit, 0)

Comment == "Author name was updated for vendor"

----------------------------------------------------------------------------
(* The recordHook callback *)

InitHookVars ==
    /\ input \in Texts
    /\ record = [values |-> [author |-> input], comments |-> [author |-> <<>>]]
    /\ hookPc = "pending"
    /\ returned = FALSE

IdleHookVars ==
    /\ input = <<>>
    /\ record = [values |-> [author |-> <<>>], comments |-> [author |-> <<>>]]
    /\ hookPc = "done"
    /\ returned = FALSE

\* the callback on a record whose author fails the pattern: set, addComment,
\* return record
HookRewrite ==
    /\ hookPc = "pending"
    /\ ~validateNameFormat(record.values.author)
    /\ LET nameSplit == Split(record.values.author)
       IN  record' = [values |-> [author |-> RewrittenAuthor(nameSplit)],
                      comments |-> [author |-> Append(record.comments.author, Comment)]]
    /\ returned' = TRUE
    /\ hookPc' = "done"
    /\ UNCHANGED <<input, jobVars>>

\* the callback on a record whose author passes the pattern: falls off the
\* end of the function, returning undefined
HookSkip ==
    /\ hookPc = "pending"
    /\ validateNameFormat(record.values.author)
    /\ returned' = FALSE
    /\ hookPc' = "done"
    /\ UNCHANGED <<input, record, jobVars>>

----------------------------------------------------------------------------
(* JavaScript numbers *)

NaN == [nan |-> TRUE, twice |-> 0]

Num(n) == [nan |-> FALSE, twice |-> 2 * n]

\* the number n + 1/2
NumAndHalf(n) == [nan |-> FALSE, twice |-> 2 * n + 1]

\* a - b
JsMinus(a, b) ==
    IF a.nan \/ b.nan THEN NaN ELSE [nan |-> FALSE, twice |-> a.twice - b.twice]

\* Math.max(a, b): NaN when either argument is NaN
MathMax(a, b) ==
    IF a.nan \/ b.nan THEN NaN
    ELSE IF a.twice >= b.twice THEN a ELSE b

\* a > b: false when either side is NaN
JsGreater(a, b) == ~a.nan /\ ~b.nan /\ a.twice > b.twice

\* the literal 3 of Math.max(3 - stockValue, 0)
ReorderTarget == 3

\* what a `stock` cell can hold: whole numbers on both sides of the target,
\* a fraction, and a cell that yields NaN (empty or not a number)
StockValues == {Num(1), Num(3), Num(5), NumAndHalf(2), NaN}

----------------------------------------------------------------------------
(* The platform: workbooks, sheets, secrets *)

Workbooks == {"w1", "w2"}

SecretNames == {"email", "password"}

SheetId(w, slug) == [workbook |-> w, slug |-> slug]

NoSheet == SheetId("none", "none")

\* data.sheets of api.workbooks.get(w): the workbook's sheets, in order
WorkbookSheets(w) == <<[id |-> SheetId(w, "inventory")], [id |-> SheetId(w, "orders")]>>

\* an inventory sheet of workbook w: one record per stock value, each with a
\* title that names the workbook and the row
Inventory(w, stocks) ==
    [i \in 1..Len(stocks) |->
        [values |-> [title |-> [value |-> <<w, i>>], stock |-> [value |-> stocks[i]]]]]

StockSeqs == UNION {[1..n -> StockValues] : n \in 0..MaxRecords}

\* the value of secret `name` stored for the context of workbook w
SecretValue(w, name) == <<name, w>>

\* api.sheets.getRecordsAsCsv: a header row, then one row per record
CsvRow(r) == <<r.title.value, r.purchase.value>>

ToCsv(records) == <<<<"title", "purchase">>>> \o [i \in 1..Len(records) |-> CsvRow(records[i])]

----------------------------------------------------------------------------
(* The job:completed handler *)

\* item => { ...; return fields } of currentInventory.data.records.map:
\* purchase = {value: Math.max(3 - stock, 0), valid: true}, stock removed
PurchaseLine(item) ==
    LET stockValue == item.values.stock.value
        stockOrder == MathMax(JsMinus(Num(ReorderTarget), stockValue), Num(0))
        withPurchase == [k \in DOMAIN item.values \cup {"purchase"} |->
                            IF k = "purchase" THEN [value |-> stockOrder, valid |-> TRUE]
                            ELSE item.values[k]]
    IN  [k \in DOMAIN withPurchase \ {"stock"} |-> withPurchase[k]]

PurchaseInventory(records) == [i \in 1..Len(records) |-> PurchaseLine(records[i])]

\* the filter with >= for >
KeepLine_nonNegative(item) ==
    ~item.purchase.value.nan /\ item.purchase.value.twice >= 0

\* item => item.purchase.value > 0
KeepLine(item) == JsGreater(item.purchase.value, Num(0))

\* Array.prototype.filter with KeepLine
RECURSIVE PurchaseOrder(_)
PurchaseOrder(lines) ==
    IF lines = <<>> THEN <<>>
    ELSE IF KeepLine(Head(lines)) THEN <<Head(lines)>> \o PurchaseOrder(Tail(lines))
    ELSE PurchaseOrder(Tail(lines))

\* one call the handler made, and whether it returned (ok) or rejected
Call(name, ok) == [name |-> name, ok |-> ok]

\* a handler run at its start: no local is set, the first await is pending
NewHandler(w) ==
    [workbookId |-> w, pc |-> "secrets:email", calls |-> <<>>, failedAt |-> "none",
     email |-> <<>>, password |-> <<>>,
     inventorySheet |-> NoSheet, orderSheet |-> NoSheet,
     currentInventory |-> <<>>, purchaseInventory |-> <<>>, purchaseOrder |-> <<>>,
     before |-> <<>>, csv |-> <<>>]

\* the awaited call rejects: the async function ends rejected at that await
Reject(i, call) ==
    handlers' = [handlers EXCEPT ![i].pc = "failed", ![i].failedAt = call,
                                 ![i].calls = Append(@, Call(call, FALSE))]

\* the event bus delivers job:completed (job workbook:map) for workbook w
JobCompleted(w, cap) ==
    /\ w \in DOMAIN secretStore
    /\ Len(handlers) < cap
    /\ handlers' = Append(handlers, NewHandler(w))
    /\ UNCHANGED <<sheets, secretStore, outbox, hookVars>>

\* const email = await event.secrets("email").  event.secrets resolves with
\* the value of a stored secret and rejects for a name that is not stored; as
\* every call to the platform, it may also reject for a stored one.
SecretsEmail(i) ==
    /\ handlers[i].pc = "secrets:email"
    /\ LET w == handlers[i].workbookId
       IN  \/ /\ "email" \in DOMAIN secretStore[w]
              /\ handlers' = [handlers EXCEPT ![i].pc = "secrets:password",
                                  ![i].calls = Append(@, Call("secrets:email", TRUE)),
                                  ![i].email = secretStore[w]["email"]]
           \/ Reject(i, "secrets:email")
    /\ UNCHANGED <<sheets, secretStore, outbox, hookVars>>

\* the lookup with its rejection caught: the handler goes on with no password
SecretsPassword_unchecked(i) ==
    /\ handlers[i].pc = "secrets:password"
    /\ LET w == handlers[i].workbookId
       IN  handlers' = [handlers EXCEPT ![i].pc = "workbooks.get",
                            ![i].calls = Append(@, Call("secrets:password",
                                                        "password" \in DOMAIN secretStore[w])),
                            ![i].password = IF "password" \in DOMAIN secretStore[w]
                                            THEN secretStore[w]["password"] ELSE <<>>]
    /\ UNCHANGED <<sheets, secretStore, outbox, hookVars>>

\* const password = await event.secrets("password")
SecretsPassword(i) ==
    /\ handlers[i].pc = "secrets:password"
    /\ LET w == handlers[i].workbookId
       IN  \/ /\ "password" \in DOMAIN secretStore[w]
              /\ handlers' = [handlers EXCEPT ![i].pc = "workbooks.get",
                                  ![i].calls = Append(@, Call("secrets:password", TRUE)),
                                  ![i].password = secretStore[w]["password"]]
           \/ Reject(i, "secrets:password")
    /\ UNCHANGED <<sheets, secretStore, outbox, hookVars>>

\* the sheet ids kept in one place for all runs: every run uses the sheets of
\* the workbook of the first event
WorkbooksGet_shared(i) ==
    /\ handlers[i].pc = "workbooks.get"
    /\ LET data == [sheets |-> WorkbookSheets(handlers[1].workbookId)]
       IN  \/ handlers' = [handlers EXCEPT ![i].pc = "records.get",
                               ![i].calls = Append(@, Call("workbooks.get", TRUE)),
                               ![i].inventorySheet = data.sheets[1].id,
                               ![i].orderSheet = data.sheets[2].id]
           \/ Reject(i, "workbooks.get")
    /\ UNCHANGED <<sheets, secretStore, outbox, hookVars>>

\* const { data } = await api.workbooks.get(event.context.workbookId), then
\* inventorySheet = data.sheets[0].id and orderSheet = data.sheets[1].id
WorkbooksGet(i) ==
    /\ handlers[i].pc = "workbooks.get"
    /\ LET data == [sheets |-> WorkbookSheets(handlers[i].workbookId)]
       IN  \/ handlers' = [handlers EXCEPT ![i].pc = "records.get",
                               ![i].calls = Append(@, Call("workbooks.get", TRUE)),
                               ![i].inventorySheet = data.sheets[1].id,
                               ![i].orderSheet = data.sheets[2].id]
           \/ Reject(i, "workbooks.get")
    /\ UNCHANGED <<sheets, secretStore, outbox, hookVars>>

\* const currentInventory = await api.records.get(inventorySheet), then the
\* map and the filter that build purchaseOrder
RecordsGet(i) ==
    /\ handlers[i].pc = "records.get"
    /\ LET records == sheets[handlers[i].inventorySheet]
       IN  \/ handlers' = [handlers EXCEPT ![i].pc = "records.insert",
                               ![i].calls = Append(@, Call("records.get", TRUE)),
                               ![i].currentInventory = records,
                               ![i].purchaseInventory = PurchaseInventory(records),
                               ![i].purchaseOrder = PurchaseOrder(PurchaseInventory(records))]
           \/ Reject(i, "records.get")
    /\ UNCHANGED <<sheets, secretStore, outbox, hookVars>>

\* an insert that leaves out the lines the sheet already holds
RecordsInsert_deduped(i) ==
    /\ handlers[i].pc = "records.insert"
    /\ LET sheet == handlers[i].orderSheet
           isNew(line) == \A k \in 1..Len(sheets[sheet]) : sheets[sheet][k] # line
       IN  \/ /\ sheets' = [sheets EXCEPT ![sheet] = @ \o SelectSeq(handlers[i].purchaseOrder, isNew)]
              /\ handlers' = [handlers EXCEPT ![i].pc = "sheets.getRecordsAsCsv",
                                  ![i].calls = Append(@, Call("records.insert", TRUE)),
                                  ![i].before = sheets[sheet]]
           \/ /\ Reject(i, "records.insert")
              /\ UNCHANGED sheets
    /\ UNCHANGED <<secretStore, outbox, hookVars>>

\* await api.records.insert(orderSheet, purchaseOrder): the platform appends
\* the records to the sheet.  `before` notes the sheet as the insert found it.
RecordsInsert(i) ==
    /\ handlers[i].pc = "records.insert"
    /\ LET sheet == handlers[i].orderSheet
       IN  \/ /\ sheets' = [sheets EXCEPT ![sheet] = @ \o handlers[i].purchaseOrder]
              /\ handlers' = [handlers EXCEPT ![i].pc = "sheets.getRecordsAsCsv",
                                  ![i].calls = Append(@, Call("records.insert", TRUE)),
                                  ![i].before = sheets[sheet]]
           \/ /\ Reject(i, "records.insert")
              /\ UNCHANGED sheets
    /\ UNCHANGED <<secretStore, outbox, hookVars>>

\* the CSV made of the batch just inserted, not of the sheet
GetRecordsAsCsv_batchOnly(i) ==
    /\ handlers[i].pc = "sheets.getRecordsAsCsv"
    /\ \/ handlers' = [handlers EXCEPT ![i].pc = "sendMail",
                           ![i].calls = @ \o <<Call("sheets.getRecordsAsCsv", TRUE),
                                                 Call("createTransport", TRUE)>>,
                           ![i].csv = ToCsv(handlers[i].purchaseOrder)]
       \/ Reject(i, "sheets.getRecordsAsCsv")
    /\ UNCHANGED <<sheets, secretStore, outbox, hookVars>>

\* const csv = await api.sheets.getRecordsAsCsv(orderSheet), then
\* nodemailer.createTransport(...) and the start of sendMail
GetRecordsAsCsv(i) ==
    /\ handlers[i].pc = "sheets.getRecordsAsCsv"
    /\ \/ handlers' = [handlers EXCEPT ![i].pc = "sendMail",
                           ![i].calls = @ \o <<Call("sheets.getRecordsAsCsv", TRUE),
                                                 Call("createTransport", TRUE)>>,
                           ![i].csv = ToCsv(sheets[handlers[i].orderSheet])]
       \/ Reject(i, "sheets.getRecordsAsCsv")
    /\ UNCHANGED <<sheets, secretStore, outbox, hookVars>>

\* the message sendMail is given, with the auth of the transport it goes through
MailOptions(h) ==
    [auth |-> [user |-> h.email, pass |-> h.password],
     from |-> h.email,
     to |-> "warehouse@books.com",
     subject |-> "Purchase Order",
     text |-> "Attached",
     attachments |-> <<[filename |-> "orders.csv", content |-> h.csv]>>]

\* sendMail with its error logged and dropped: the run ends as done
SendMail_swallowed(i) ==
    /\ handlers[i].pc = "sendMail"
    /\ \/ /\ outbox' = Append(outbox, [run |-> i, mail |-> MailOptions(handlers[i])])
          /\ handlers' = [handlers EXCEPT ![i].pc = "done",
                              ![i].calls = Append(@, Call("sendMail", TRUE))]
       \/ /\ handlers' = [handlers EXCEPT ![i].pc = "done",
                              ![i].calls = Append(@, Call("sendMail", FALSE))]
          /\ UNCHANGED outbox
    /\ UNCHANGED <<sheets, secretStore, hookVars>>

\* await sendMail(mailOptions): the transport accepts the message, or the
\* promisified callback gets an error
SendMail(i) ==
    /\ handlers[i].pc = "sendMail"
    /\ \/ /\ outbox' = Append(outbox, [run |-> i, mail |-> MailOptions(handlers[i])])
          /\ handlers' = [handlers EXCEPT ![i].pc = "done",
                              ![i].calls = Append(@, Call("sendMail", TRUE))]
       \/ /\ Reject(i, "sendMail")
          /\ UNCHANGED outbox
    /\ UNCHANGED <<sheets, secretStore, hookVars>>

----------------------------------------------------------------------------
(* Specifications *)

InitJobVars(books, stockChoice, secretChoice) ==
    /\ \E stocks \in [books -> stockChoice] :
          sheets = [s \in {SheetId(w, slug) : w \in books, slug \in {"inventory", "orders"}} |->
                        IF s.slug = "inventory" THEN Inventory(s.workbook, stocks[s.workbook])
                        ELSE <<>>]
    /\ \E present \in [books -> secretChoice] :
          secretStore = [w \in books |-> [n \in present[w] |-> SecretValue(w, n)]]
    /\ handlers = <<>>
    /\ outbox = <<>>

IdleJobVars == InitJobVars({}, {<<>>}, {{}})

\* the recordHook callback, on every author text up to MaxLen
InitHook == InitHookVars /\ IdleJobVars

NextHook == HookRewrite \/ HookSkip

SpecHook == InitHook /\ [][NextHook]_vars

\* one workbook, every inventory up to MaxRecords, every set of secrets
Init == IdleHookVars /\ InitJobVars({"w1"}, StockSeqs, SUBSET SecretNames)

Next ==
    \/ \E w \in Workbooks : JobCompleted(w, MaxRuns)
    \/ \E i \in 1..Len(handlers) : SecretsEmail(i)
    \/ \E i \in 1..Len(handlers) : SecretsPassword(i)
    \/ \E i \in 1..Len(handlers) : WorkbooksGet(i)
    \/ \E i \in 1..Len(handlers) : RecordsGet(i)
    \/ \E i \in 1..Len(handlers) : RecordsInsert(i)
    \/ \E i \in 1..Len(handlers) : GetRecordsAsCsv(i)
    \/ \E i \in 1..Len(handlers) : SendMail(i)

Spec == Init /\ [][Next]_vars

\* two workbooks with both secrets, handlers of several events in flight
ConcurrentStocks == {<<Num(1), Num(5)>>, <<Num(3), NumAndHalf(2)>>}

InitConcurrent == IdleHookVars /\ InitJobVars(Workbooks, ConcurrentStocks, {SecretNames})

NextConcurrent ==
    \/ \E w \in Workbooks : JobCompleted(w, MaxEvents)
    \/ \E i \in 1..Len(handlers) : SecretsEmail(i)
    \/ \E i \in 1..Len(handlers) : SecretsPassword(i)
    \/ \E i \in 1..Len(handlers) : WorkbooksGet(i)
    \/ \E i \in 1..Len(handlers) : RecordsGet(i)
    \/ \E i \in 1..Len(handlers) : RecordsInsert(i)
    \/ \E i \in 1..Len(handlers) : GetRecordsAsCsv(i)
    \/ \E i \in 1..Len(handlers) : SendMail(i)

SpecConcurrent == InitConcurrent /\ [][NextConcurrent]_vars

----------------------------------------------------------------------------
(* The Record Validator: claims C4, C5, C6 (under SpecHook) *)

\* t is whitespace, then a non-empty run of letters, apostrophes and hyphens,
\* then whitespace
PaddedToken(t) ==
    \E a \in 1..Len(t) : \E b \in a..Len(t) :
        \A k \in 1..Len(t) :
            IF a <= k /\ k <= b THEN t[k] \in NameChars ELSE t[k] \in Whitespace

\* "Surname, Given": a padded token, a comma, a padded token
WellFormed(s) ==
    \E c \in 1..Len(s) :
        /\ s[c] = ","
        /\ PaddedToken(SubSeq(s, 1, c - 1))
        /\ PaddedToken(SubSeq(s, c + 1, Len(s)))

\* s is two non-empty tokens with one single space between them, the space
\* being at position p
SpaceAt(s, p) ==
    /\ 1 < p /\ p < Len(s)
    /\ \A k \in 1..Len(s) : (s[k] = " ") <=> (k = p)

TwoTokens(s) == \E p \in 1..Len(s) : SpaceAt(s, p)

\* "Surname, Given" built from the two tokens of s around the space at p
SurnameGiven(s, p) == SubSeq(s, p + 1, Len(s)) \o <<",", " ">> \o SubSeq(s, 1, p - 1)

\* s holds at least two non-empty tokens with a space between them
AtLeastTwoTokens(s) ==
    \E p \in 1..Len(s) :
        /\ s[p] = " "
        /\ \E k \in 1..(p - 1) : s[k] # " "
        /\ \E k \in (p + 1)..Len(s) : s[k] # " "

\* C4: on a record whose author is already well-formed the hook changes
\* nothing: the author is the text it was given, no comment is added and
\* the callback returns no record.
C4_WellFormedIsNoOp ==
    (hookPc = "done" /\ WellFormed(input)) =>
        /\ record.values.author = input
        /\ record.comments.author = <<>>
        /\ returned = FALSE

C4_Witness ==
    /\ hookPc = "done"
    /\ input = <<" ", "a", ",", " ", "b">>
    /\ record.values.author = input
    /\ record.comments.author = <<>>

\* C5 as stated: every author of exactly two tokens with a single space
\* between them is rewritten to "Surname, Given" and gets exactly one comment.
C5_TwoTokensRewritten ==
    \A p \in 1..Len(input) :
        (hookPc = "done" /\ SpaceAt(input, p)) =>
            /\ record.values.author = SurnameGiven(input, p)
            /\ Len(record.comments.author) = 1

\* C5 amended: every author of exactly two tokens with a single space between
\* them that is not already well-formed is rewritten to "Surname, Given"
\* (second token, comma, space, first token) and gets exactly one comment.
C5_TwoTokensRewrittenUnlessWellFormed ==
    \A p \in 1..Len(input) :
        (hookPc = "done" /\ SpaceAt(input, p) /\ ~WellFormed(input)) =>
            /\ record.values.author = SurnameGiven(input, p)
            /\ record.comments.author = <<Comment>>
            /\ returned = TRUE

C5_Witness ==
    /\ hookPc = "done"
    /\ input = <<"a", "-", " ", "b">>
    /\ record.values.author = <<"b", ",", " ", "a", "-">>
    /\ Len(record.comments.author) = 1

\* C6: for every author that holds at least two space-separated tokens, the
\* author the hook leaves on the record is well-formed.
C6_TwoTokensLeftWellFormed ==
    (hookPc = "done" /\ AtLeastTwoTokens(input)) => WellFormed(record.values.author)

----------------------------------------------------------------------------
(* The job:completed handler: claims C1, C2, C3, C8 (under Spec) *)

Runs == 1..Len(handlers)

\* the handler made the call `name` and it returned
Completed(h, name) == \E k \in 1..Len(h.calls) : h.calls[k] = Call(name, TRUE)

\* the handler made the call `name`, whatever came of it
Attempted(h, name) == \E k \in 1..Len(h.calls) : h.calls[k].name = name

\* the calls of one run of the handler, in the order of the code
CallOrder ==
    <<"secrets:email", "secrets:password", "workbooks.get", "records.get",
      "records.insert", "sheets.getRecordsAsCsv", "createTransport", "sendMail">>

CallNames(h) == [k \in 1..Len(h.calls) |-> h.calls[k].name]

IsPrefix(a, b) == Len(a) <= Len(b) /\ SubSeq(b, 1, Len(a)) = a

Count(seq, x) == Cardinality({k \in 1..Len(seq) : seq[k] = x})

\* the source and the destination table of workbook w
Source(w) == sheets[SheetId(w, "inventory")]

Orders(w) == sheets[SheetId(w, "orders")]

\* the messages the transport accepted from run i
MailsOf(i) == {k \in 1..Len(outbox) : outbox[k].run = i}

\* C1: once a run of the handler has inserted its purchase order, the line
\* derived from each source record (one line per record, under the record's
\* title) is in the destination table if and only if its purchase.value is
\* greater than 0; a line whose quantity is exactly 0 is in no destination
\* table.
C1_InsertedIffPositive ==
    /\ \A i \in Runs :
        LET h == handlers[i] IN
        Completed(h, "records.insert") =>
            /\ Len(h.purchaseInventory) = Len(Source(h.workbookId))
            /\ \A k \in 1..Len(h.purchaseInventory) :
                LET line == h.purchaseInventory[k]
                    q == line.purchase.value
                IN  /\ line.title = Source(h.workbookId)[k].values.title
                    /\ (Count(Orders(h.workbookId), line) > 0) <=> (~q.nan /\ q.twice > 0)
    /\ \A w \in DOMAIN secretStore :
        \A k \in 1..Len(Orders(w)) : Orders(w)[k].purchase.value # Num(0)

C1_Witness ==
    \E i \in Runs :
        LET h == handlers[i] IN
        /\ Completed(h, "records.insert")
        /\ \E k \in 1..Len(h.purchaseInventory) :
            /\ h.purchaseInventory[k].purchase.value = Num(0)
            /\ Count(Orders(h.workbookId), h.purchaseInventory[k]) = 0
        /\ \E k \in 1..Len(h.purchaseInventory) :
            /\ h.purchaseInventory[k].purchase.value = Num(2)
            /\ Count(Orders(h.workbookId), h.purchaseInventory[k]) = 1

\* C2: the quantity attached to the line of every source record, whatever
\* its stock value s, is a non-negative integer, equal to max(3 - s, 0), with
\* valid = true.
C2_QuantityIsMaxAndNonNegativeInteger ==
    \A i \in Runs :
        LET h == handlers[i] IN
        \A k \in 1..Len(h.purchaseInventory) :
            LET s == h.currentInventory[k].values.stock.value
                q == h.purchaseInventory[k].purchase.value
            IN  /\ h.purchaseInventory[k].purchase.valid = TRUE
                /\ ~q.nan
                /\ q.twice >= 0
                /\ q.twice % 2 = 0
                /\ ~s.nan => q.twice = (IF 2 * ReorderTarget - s.twice > 0
                                        THEN 2 * ReorderTarget - s.twice ELSE 0)

C8_FailureEndsTheRun ==
    \A i \in Runs :
        LET h == handlers[i] IN
        /\ IsPrefix(CallNames(h), CallOrder)
        /\ \A k \in 1..Len(h.calls) :
            ~h.calls[k].ok =>
                /\ k = Len(h.calls)
                /\ h.pc = "failed"
                /\ h.failedAt = h.calls[k].name
                /\ MailsOf(i) = {}
        /\ (h.pc = "failed") =>
            /\ h.calls # <<>>
            /\ h.calls[Len(h.calls)] = Call(h.failedAt, FALSE)
        /\ (h.pc = "failed" /\ Completed(h, "records.insert")) =>
            SubSeq(sheets[h.orderSheet], Len(h.before) + 1,
                   Len(h.before) + Len(h.purchaseOrder)) = h.purchaseOrder

C8_Witness ==
    \E i \in Runs :
        LET h == handlers[i] IN
        /\ h.pc = "failed"
        /\ h.failedAt = "sendMail"
        /\ h.purchaseOrder # <<>>
        /\ Orders(h.workbookId) = h.purchaseOrder
        /\ MailsOf(i) = {}

----------------------------------------------------------------------------
(* Runs of several events: claims C7, C9, C10 (under SpecConcurrent) *)

RECURSIVE Repeat(_, _)
Repeat(seq, n) == IF n = 0 THEN <<>> ELSE seq \o Repeat(seq, n - 1)

\* the runs for workbook w whose insert returned
InsertsDone(w) ==
    Cardinality({i \in Runs : handlers[i].workbookId = w
                              /\ Completed(handlers[i], "records.insert")})

\* the purchase order the source table of workbook w yields
OrderOf(w) == PurchaseOrder(PurchaseInventory(Source(w)))

\* C7: nothing is deduplicated: with n runs on workbook w having inserted,
\* the destination table of w holds n copies of the line of each source
\* record whose quantity is greater than 0, and none of the other lines.
C7_RunsInsertDuplicates ==
    \A w \in DOMAIN secretStore :
        \A k \in 1..Len(Source(w)) :
            LET line == PurchaseLine(Source(w)[k])
                q == line.purchase.value
            IN  Count(Orders(w), line) =
                    (IF ~q.nan /\ q.twice > 0 THEN InsertsDone(w) ELSE 0)

C7_Witness ==
    \E w \in DOMAIN secretStore :
        /\ InsertsDone(w) = 2
        /\ \E k \in 1..Len(Source(w)) : Count(Orders(w), PurchaseLine(Source(w)[k])) = 2
        /\ \E k \in 1..Len(Source(w)) : Count(Orders(w), PurchaseLine(Source(w)[k])) = 0

\* C9: every run makes its calls in the order of the code (insert, then CSV
\* export, then sendMail); a run that is done has had exactly one message
\* accepted and any other run none; the message was sent after the run's
\* insert returned, with the fixed subject, body and recipient, and its one
\* attachment orders.csv is the CSV of the whole destination table as it was
\* at the export: the records that were there before the run, then the run's
\* batch, then whatever other runs had appended by then.
C9_MailAfterInsertCarriesWholeTable ==
    \A i \in Runs :
        LET h == handlers[i]
            dest == sheets[h.orderSheet]
            lo == Len(h.before) + Len(h.purchaseOrder)
        IN  /\ IsPrefix(CallNames(h), CallOrder)
            /\ Cardinality(MailsOf(i)) = (IF h.pc = "done" THEN 1 ELSE 0)
            /\ \A k \in MailsOf(i) :
                LET m == outbox[k].mail IN
                /\ Completed(h, "records.insert")
                /\ Completed(h, "sheets.getRecordsAsCsv")
                /\ m.subject = "Purchase Order"
                /\ m.text = "Attached"
                /\ m.to = "warehouse@books.com"
                /\ Len(m.attachments) = 1
                /\ m.attachments[1].filename = "orders.csv"
                /\ SubSeq(dest, 1, Len(h.before)) = h.before
                /\ SubSeq(dest, Len(h.before) + 1, lo) = h.purchaseOrder
                /\ \E n \in lo..Len(dest) :
                      m.attachments[1].content = ToCsv(SubSeq(dest, 1, n))

C9_Witness ==
    \E i \in Runs :
        LET h == handlers[i] IN
        /\ h.pc = "done"
        /\ h.before # <<>>
        /\ h.purchaseOrder # <<>>
        /\ \E k \in MailsOf(i) :
              outbox[k].mail.attachments[1].content = ToCsv(h.before \o h.purchaseOrder)

\* C10: however the runs interleave, the destination table of each workbook
\* holds exactly the purchase order of that workbook's own source table, once
\* per run on that workbook that inserted; a run only ever names its own
\* workbook's sheets; and each message carries the credentials stored for its
\* own run's context and a CSV of its own workbook's destination table.
C10_RunsShareNoState ==
    /\ \A w \in DOMAIN secretStore : Orders(w) = Repeat(OrderOf(w), InsertsDone(w))
    /\ \A i \in Runs :
        LET h == handlers[i] IN
        /\ h.inventorySheet \in {NoSheet, SheetId(h.workbookId, "inventory")}
        /\ h.orderSheet \in {NoSheet, SheetId(h.workbookId, "orders")}
        /\ h.email \in {<<>>, SecretValue(h.workbookId, "email")}
        /\ h.password \in {<<>>, SecretValue(h.workbookId, "password")}
    /\ \A k \in 1..Len(outbox) :
        LET w == handlers[outbox[k].run].workbookId
            m == outbox[k].mail
        IN  /\ m.auth = [user |-> SecretValue(w, "email"), pass |-> SecretValue(w, "password")]
            /\ m.from = SecretValue(w, "email")
            /\ \E n \in 1..InsertsDone(w) :
                  m.attachments[1].content = ToCsv(Repeat(OrderOf(w), n))

C10_Witness ==
    /\ Len(handlers) = 2
    /\ handlers[1].workbookId # handlers[2].workbookId
    /\ handlers[1].pc = "done"
    /\ handlers[2].pc = "done"
    /\ Len(outbox) = 2
    /\ outbox[1].run = 2
    /\ outbox[1].mail.attachments[1].content # outbox[2].mail.attachments[1].content
    /\ outbox[1].mail.auth # outbox[2].mail.auth

====
